---- MODULE Spec2Model ----
(***************************************************************************)
(* Moo Mines (src/src/App.jsx): the MooMines component as a state machine. *)
(*                                                                         *)
(* Money is held in hundredths of a point (cents): every amount the        *)
(* component stores goes through toFixed(2) or is a sum of such amounts,   *)
(* so 1000 points is 100000 and a multiplier of 1.07x is 107.              *)
(* Time is in milliseconds counted from an origin that lies more than      *)
(* CLAIM_INTERVAL before the moment the component is mounted (MountTime).  *)
(***************************************************************************)
EXTENDS Integers, FiniteSets, Sequences, TLC

(* ------------------------------ bounds --------------------------------- *)
\* tiles the player clicks are 0..MaxTile
MaxTile == 1
\* outcomes of randomMineIndex() explored are 0..MaxMine
MaxMine == 1
\* rounds started in one behaviour
MaxRounds == 2
\* clock ticks in one behaviour
MaxTicks == 1

(* --------------------------- program constants ------------------------- *)
SIZE == 5
TOTAL_TILES == SIZE * SIZE
SAFE_TILES == TOTAL_TILES - 1
MIN_MULT == 100
MAX_MULT == 2000
CLAIM_AMOUNT == 100 * 100
CLAIM_INTERVAL == 6 * 60 * 60 * 1000

\* useState defaults: balance 1000 (no saved value), wager 50, lastClaim 0
DEFAULT_BALANCE == 1000 * 100
DEFAULT_WAGER == 50 * 100
DEFAULT_LAST_CLAIM == 0

Tiles == 0 .. (TOTAL_TILES - 1)

\* values typed into the wager input (cents): 999.5 points and 1000 points
WagerInputs == {99950, 1000 * 100}
\* Date.now() when the component mounts
MountTime == 2 * CLAIM_INTERVAL
\* one tick of the wall clock: a whole claim interval
TickStep == CLAIM_INTERVAL

(* ----------------------------- pure helpers ---------------------------- *)
Min(a, b) == IF a <= b THEN a ELSE b
Max(a, b) == IF a >= b THEN a ELSE b

\* Number((x * y).toFixed(2)) for 2-decimal x and y: p is the exact product in
\* 1/10000 of a point, the results are in cents.  toFixed rounds the double
\* to the nearest cent.  When the exact product ends in half a cent the
\* double that holds it lies just below or just above the half, so either
\* neighbouring cent can come out; otherwise the nearest cent does.
ToFixed2(p) ==
  IF p % 100 = 50
  THEN {p \div 100, p \div 100 + 1}
  ELSE {(p + 50) \div 100}

Abs(n) == IF n < 0 THEN 0 - n ELSE n

\* localStorage.setItem(key, x) stores String(x).  For a 2-decimal amount
\* (cents) that is a sign, the digits of the integer part and the fraction
\* digits without trailing zeros: 99950 is "999.5", -93 is "-0.93".
NumberToString(c) ==
  [neg |-> c < 0,
   int |-> Abs(c) \div 100,
   frac |-> IF Abs(c) % 100 = 0 THEN << >>
            ELSE IF Abs(c) % 10 = 0 THEN << (Abs(c) % 100) \div 10 >>
            ELSE << (Abs(c) % 100) \div 10, Abs(c) % 10 >>]

\* Number(saved) of such a string, back in cents
StringToNumber(s) ==
  LET f == IF Len(s.frac) = 0 THEN 0
           ELSE IF Len(s.frac) = 1 THEN 10 * s.frac[1]
           ELSE 10 * s.frac[1] + s.frac[2]
  IN (IF s.neg THEN 0 - 1 ELSE 1) * (100 * s.int + f)

\* the same for a whole number of milliseconds
MillisToString(t) == [neg |-> t < 0, int |-> Abs(t), frac |-> << >>]
StringToMillis(s) == (IF s.neg THEN 0 - 1 ELSE 1) * s.int

\* curvedMultiplier(safeRevealed), in hundredths.  For n > 0 the source
\* computes Number((1.05 + (MAX_MULT - 1.05) * (n / SAFE_TILES)^2.2).toFixed(2));
\* the sequence below is that expression evaluated for n = 1..24.
CurveTable ==
  << 107, 113, 125, 142, 165, 195, 231, 274, 324, 381, 446, 517,
     597, 684, 779, 882, 992, 1111, 1238, 1374, 1518, 1670, 1831, 2000 >>

\* variant: the baseline test of line 28 is missing, so 0 gives 1.05
curvedMultiplierNoBaseline(n) ==
  IF n = 0 THEN 105
  ELSE CurveTable[Min(Max(n, 0), SAFE_TILES)]

curvedMultiplier(n) ==
  IF n = 0 THEN 100
  ELSE CurveTable[Min(Max(n, 0), SAFE_TILES)]

\* randomMineIndex(): Math.floor(Math.random() * TOTAL_TILES)
randomMineIndex == {i \in Tiles : i <= MaxMine}

(* -------------------------------- state -------------------------------- *)
VARIABLES
  balance,       \* useState balance (cents)
  wager,         \* useState wager (cents)
  mineIdx,       \* useState mineIdx
  revealed,      \* useState revealed: array of TOTAL_TILES booleans
  gameState,     \* useState gameState: "idle" | "playing" | "cashout" | "busted"
  safeRevealed,  \* useState safeRevealed
  lastClaim,     \* useState lastClaim (ms)
  now,           \* const now = Date.now() of the latest render
  store,         \* localStorage: moo_balance, moo_lastClaim
  clock,         \* the wall clock, Date.now()
  event,         \* the latest UI event: handler, argument, whether it ran to its updates
  staked,        \* amount taken from balance by the latest startGame
  rounds         \* number of rounds started (bounded by MaxRounds)

vars == << balance, wager, mineIdx, revealed, gameState, safeRevealed,
           lastClaim, now, store, clock, event, staked, rounds >>

round == << mineIdx, revealed, gameState, safeRevealed >>

NoTile == 0 - 1
Event(op, idx, ran) == [op |-> op, idx |-> idx, ran |-> ran]

RevealedSet == {i \in Tiles : revealed[i]}

\* derived values of a render (potentialPayout: the values line 84 can give)
currentMultiplier == curvedMultiplier(safeRevealed)
\* variant: the memo misses its wager dependency and keeps the initial wager
potentialPayoutStaleWager == ToFixed2(DEFAULT_WAGER * currentMultiplier)
potentialPayout == ToFixed2(wager * currentMultiplier)
timeSinceClaim == now - lastClaim
\* variant: the interval is left out of the comparison
canClaimNoInterval == timeSinceClaim >= 0
canClaim == timeSinceClaim >= CLAIM_INTERVAL
\* variant: the subtraction is written the other way round
timeLeftReversed == timeSinceClaim - CLAIM_INTERVAL
timeLeft == CLAIM_INTERVAL - timeSinceClaim

\* formatTime(ms), lines 153-158: "Ready!" or `${h}h ${m}m`
formatTime(ms) ==
  IF ms <= 0
  THEN [ready |-> TRUE, h |-> 0, m |-> 0]
  ELSE [ready |-> FALSE,
        h |-> ms \div (1000 * 60 * 60),
        m |-> (ms % (1000 * 60 * 60)) \div (1000 * 60)]

\* disabled / rendered conditions of the controls
\* variants: the Start button without one of its two disabled conditions
StartDisabledOnlyPlaying == gameState = "playing"
StartDisabledOnlyNoFunds == balance <= 0
StartDisabled == gameState = "playing" \/ balance <= 0
WagerDisabled == gameState = "playing"
ClaimShown == balance <= 0
ResetShown == gameState = "cashout" \/ gameState = "busted"

\* A state update re-renders the component: `now` is read again and the
\* two persistence effects write the values that changed.
\* variant: the values are written by the handler, from its own closure,
\* before the state update
RenderWritesBefore ==
  /\ now' = clock
  /\ store' = [moo_balance |-> NumberToString(balance),
               moo_lastClaim |-> MillisToString(lastClaim)]

Render ==
  /\ now' = clock
  /\ store' = [moo_balance |-> IF balance' # balance
                               THEN NumberToString(balance')
                               ELSE store.moo_balance,
               moo_lastClaim |-> IF lastClaim' # lastClaim
                                 THEN MillisToString(lastClaim')
                                 ELSE store.moo_lastClaim]

\* An event that updates no state re-renders nothing.
NoRender == UNCHANGED << now, store >>

TypeOK ==
  /\ balance \in Int
  /\ wager \in Int
  /\ mineIdx \in Tiles
  /\ revealed \in [Tiles -> BOOLEAN]
  /\ gameState \in {"idle", "playing", "cashout", "busted"}
  /\ safeRevealed \in 0 .. TOTAL_TILES
  /\ lastClaim \in Nat
  /\ now \in Nat
  /\ clock \in Nat
  /\ rounds \in 0 .. MaxRounds

Init ==
  /\ balance = DEFAULT_BALANCE
  /\ wager = DEFAULT_WAGER
  /\ mineIdx \in randomMineIndex
  /\ revealed = [i \in Tiles |-> FALSE]
  /\ gameState = "idle"
  /\ safeRevealed = 0
  /\ lastClaim = DEFAULT_LAST_CLAIM
  /\ clock = MountTime
  /\ now = MountTime
  /\ store = [moo_balance |-> NumberToString(DEFAULT_BALANCE),
              moo_lastClaim |-> MillisToString(DEFAULT_LAST_CLAIM)]
  /\ event = Event("mount", NoTile, TRUE)
  /\ staked = 0
  /\ rounds = 0

(* ------------------------------- handlers ------------------------------ *)
\* variant: setRevealed(Array(TOTAL_TILES).fill(false)) is missing
startGameKeepsBoard ==
  LET w == Max(100, Min(wager, balance)) IN
  IF w <= 0
  THEN UNCHANGED << balance, wager, round, staked, rounds >> /\ NoRender
       /\ event' = Event("start", NoTile, FALSE)
  ELSE /\ wager' = w
       /\ balance' = balance - w
       /\ revealed' = revealed
       /\ mineIdx' \in randomMineIndex
       /\ safeRevealed' = 0
       /\ gameState' = "playing"
       /\ staked' = balance - balance'
       /\ rounds' = rounds + 1
       /\ event' = Event("start", NoTile, TRUE)
       /\ Render

\* startGame, lines 97-106
startGame ==
  LET w == Max(100, Min(wager, balance)) IN
  IF w <= 0
  THEN UNCHANGED << balance, wager, round, staked, rounds >> /\ NoRender
       /\ event' = Event("start", NoTile, FALSE)
  ELSE /\ wager' = w
       /\ balance' = balance - w
       /\ revealed' = [i \in Tiles |-> FALSE]
       /\ mineIdx' \in randomMineIndex
       /\ safeRevealed' = 0
       /\ gameState' = "playing"
       /\ staked' = balance - balance'
       /\ rounds' = rounds + 1
       /\ event' = Event("start", NoTile, TRUE)
       /\ Render

\* the Start button, lines 216-219
ClickStart ==
  /\ UNCHANGED << lastClaim, clock >>
  /\ IF StartDisabled
     THEN /\ UNCHANGED << balance, wager, round, staked, rounds >>
          /\ NoRender
          /\ event' = Event("start", NoTile, FALSE)
     ELSE rounds < MaxRounds /\ startGame

\* the wager input, lines 199-207: setWager(Number(e.target.value))
ChangeWager(v) ==
  /\ ~WagerDisabled
  /\ v # wager
  /\ wager' = v
  /\ event' = Event("wager", NoTile, TRUE)
  /\ UNCHANGED << balance, round, lastClaim, clock, staked, rounds >>
  /\ Render

\* variant: the safe counter is bumped before the mine test
revealTileCountsMine(idx) ==
  IF gameState # "playing" \/ revealed[idx]
  THEN /\ UNCHANGED << round >>
       /\ NoRender
       /\ event' = Event("reveal", idx, FALSE)
  ELSE /\ revealed' = [revealed EXCEPT ![idx] = TRUE]
       /\ safeRevealed' = safeRevealed + 1
       /\ gameState' = IF idx = mineIdx THEN "busted" ELSE gameState
       /\ mineIdx' = mineIdx
       /\ event' = Event("reveal", idx, TRUE)
       /\ Render

\* variant: the copied array is never stored (setRevealed is missing)
revealTileNoMark(idx) ==
  IF gameState # "playing" \/ revealed[idx]
  THEN /\ UNCHANGED << round >>
       /\ NoRender
       /\ event' = Event("reveal", idx, FALSE)
  ELSE /\ revealed' = revealed
       /\ IF idx = mineIdx
          THEN gameState' = "busted" /\ safeRevealed' = safeRevealed
          ELSE safeRevealed' = safeRevealed + 1 /\ gameState' = gameState
       /\ mineIdx' = mineIdx
       /\ event' = Event("reveal", idx, TRUE)
       /\ Render

\* variant: the already-open test of line 110 is missing
revealTileNoOpenCheck(idx) ==
  IF gameState # "playing"
  THEN /\ UNCHANGED << round >>
       /\ NoRender
       /\ event' = Event("reveal", idx, FALSE)
  ELSE /\ revealed' = [revealed EXCEPT ![idx] = TRUE]
       /\ IF idx = mineIdx
          THEN gameState' = "busted" /\ safeRevealed' = safeRevealed
          ELSE safeRevealed' = safeRevealed + 1 /\ gameState' = gameState
       /\ mineIdx' = mineIdx
       /\ event' = Event("reveal", idx, TRUE)
       /\ Render

\* variant: the state test of line 109 is missing
revealTileNoStateCheck(idx) ==
  IF revealed[idx]
  THEN /\ UNCHANGED << round >>
       /\ NoRender
       /\ event' = Event("reveal", idx, FALSE)
  ELSE /\ revealed' = [revealed EXCEPT ![idx] = TRUE]
       /\ IF idx = mineIdx
          THEN gameState' = "busted" /\ safeRevealed' = safeRevealed
          ELSE safeRevealed' = safeRevealed + 1 /\ gameState' = gameState
       /\ mineIdx' = mineIdx
       /\ event' = Event("reveal", idx, TRUE)
       /\ Render

\* revealTile, lines 108-124
revealTile(idx) ==
  IF gameState # "playing" \/ revealed[idx]
  THEN /\ UNCHANGED << round >>
       /\ NoRender
       /\ event' = Event("reveal", idx, FALSE)
  ELSE /\ revealed' = [revealed EXCEPT ![idx] = TRUE]
       /\ IF idx = mineIdx
          THEN gameState' = "busted" /\ safeRevealed' = safeRevealed
          ELSE safeRevealed' = safeRevealed + 1 /\ gameState' = gameState
       /\ mineIdx' = mineIdx
       /\ event' = Event("reveal", idx, TRUE)
       /\ Render

ClickTile(idx) ==
  /\ UNCHANGED << balance, wager, lastClaim, clock, staked, rounds >>
  /\ revealTile(idx)

\* variant: the state test of line 127 is missing
cashOutUnguarded ==
  /\ \E payout \in potentialPayout : balance' = balance + payout
  /\ gameState' = "cashout"
  /\ event' = Event("cashOut", NoTile, TRUE)
  /\ Render

\* cashOut, lines 126-131
cashOut ==
  IF gameState # "playing"
  THEN /\ UNCHANGED << balance, gameState >>
       /\ NoRender
       /\ event' = Event("cashOut", NoTile, FALSE)
  ELSE /\ \E payout \in potentialPayout : balance' = balance + payout
       /\ gameState' = "cashout"
       /\ event' = Event("cashOut", NoTile, TRUE)
       /\ Render

ClickCashOut ==
  /\ UNCHANGED << wager, mineIdx, revealed, safeRevealed, lastClaim, clock, staked, rounds >>
  /\ cashOut

\* variant: setSafeRevealed(0) is missing
resetRoundKeepsCount ==
  /\ revealed' = [i \in Tiles |-> FALSE]
  /\ mineIdx' \in randomMineIndex
  /\ safeRevealed' = safeRevealed
  /\ gameState' = "idle"
  /\ event' = Event("reset", NoTile, TRUE)
  /\ Render

\* variant: setRevealed(Array(TOTAL_TILES).fill(false)) is missing
resetRoundKeepsBoard ==
  /\ revealed' = revealed
  /\ mineIdx' \in randomMineIndex
  /\ safeRevealed' = 0
  /\ gameState' = "idle"
  /\ event' = Event("reset", NoTile, TRUE)
  /\ Render

\* resetRound, lines 133-138
resetRound ==
  /\ revealed' = [i \in Tiles |-> FALSE]
  /\ mineIdx' \in randomMineIndex
  /\ safeRevealed' = 0
  /\ gameState' = "idle"
  /\ event' = Event("reset", NoTile, TRUE)
  /\ Render

\* the Reset button, lines 237-244
ClickReset ==
  /\ ResetShown
  /\ UNCHANGED << balance, wager, lastClaim, clock, staked, rounds >>
  /\ resetRound

\* claimPoints, lines 146-150
claimPoints ==
  IF ~canClaim
  THEN /\ UNCHANGED << balance, lastClaim >>
       /\ NoRender
       /\ event' = Event("claim", NoTile, FALSE)
  ELSE /\ balance' = balance + CLAIM_AMOUNT
       /\ lastClaim' = clock
       /\ event' = Event("claim", NoTile, TRUE)
       /\ Render

\* the Claim button, lines 181-194: rendered when balance <= 0,
\* disabled={!canClaim}
ClickClaim ==
  /\ ClaimShown
  /\ UNCHANGED << wager, round, clock, staked, rounds >>
  /\ claimPoints

\* time passes; nothing re-renders
Tick ==
  /\ clock < MountTime + MaxTicks * TickStep
  /\ clock' = clock + TickStep
  /\ event' = Event("tick", NoTile, TRUE)
  /\ UNCHANGED << balance, wager, round, lastClaim, now, store, staked, rounds >>

Next ==
  \/ ClickStart
  \/ \E v \in WagerInputs : ChangeWager(v)
  \/ \E idx \in 0 .. MaxTile : ClickTile(idx)
  \/ ClickCashOut
  \/ ClickReset
  \/ ClickClaim
  \/ Tick

Spec == Init /\ [][Next]_vars

(* The whole board: the player opens the closed tile with the lowest or the  *)
(* highest index, so that every count of open tiles up to TOTAL_TILES is     *)
(* reached; the wager stays at its default and no time passes.               *)
ClosedTiles == Tiles \ RevealedSet
BoardClicks ==
  {i \in ClosedTiles : \A j \in ClosedTiles : i <= j}
    \cup {i \in ClosedTiles : \A j \in ClosedTiles : i >= j}

NextBoard ==
  \/ ClickStart
  \/ \E idx \in BoardClicks : ClickTile(idx)
  \/ ClickCashOut
  \/ ClickReset

SpecBoard == Init /\ [][NextBoard]_vars

(* ------------------------------ properties ----------------------------- *)
\* a step on which a round begins
RoundBegins == gameState # "playing" /\ gameState' = "playing"

\* C1: whenever startGame begins a round, the wager w it charges satisfies
\* 0 <= w <= balance before the start, and the balance after the start is
\* the balance before minus w.
C1_WagerWithinBalance ==
  [][RoundBegins =>
       /\ 0 <= wager'
       /\ wager' <= balance
       /\ balance' = balance - wager']_vars

\* C2: the balance is never negative.
C2_BalanceNonNegative == balance >= 0

\* C3: a press of Start while balance <= 0 makes no transition: round state,
\* balance, wager, revealed tiles, mine position and safeRevealed stay as
\* they are.
C3_NoFundsNoTransition ==
  [][(event'.op = "start" /\ balance <= 0) =>
       UNCHANGED << gameState, balance, wager, revealed, mineIdx, safeRevealed >>]_vars

\* Start was pressed with no funds, outside a round, and nothing ran
C3_Witness ==
  /\ event.op = "start" /\ ~event.ran
  /\ balance <= 0
  /\ gameState \in {"busted", "cashout", "idle"}

C5_MineBusts ==
  [][(event'.op = "reveal" /\ gameState = "playing" /\ event'.idx = mineIdx) =>
       /\ gameState' = "busted"
       /\ safeRevealed' = safeRevealed
       /\ balance' = balance]_vars

\* the mine was revealed after some safe tile
C5_Witness ==
  /\ event.op = "reveal" /\ event.ran
  /\ event.idx = mineIdx
  /\ gameState = "busted"
  /\ safeRevealed > 0

\* C6: revealing a tile that is neither the mine nor open, in playing, adds
\* exactly 1 to safeRevealed, marks that tile (and no other) revealed, keeps
\* the state playing and keeps the balance.
C6_SafeRevealCounts ==
  [][(/\ event'.op = "reveal"
      /\ gameState = "playing"
      /\ event'.idx # mineIdx
      /\ ~revealed[event'.idx]) =>
       /\ safeRevealed' = safeRevealed + 1
       /\ revealed' = [revealed EXCEPT ![event'.idx] = TRUE]
       /\ gameState' = "playing"
       /\ balance' = balance]_vars

\* a safe tile has just been revealed
C6_Witness ==
  /\ event.op = "reveal" /\ event.ran
  /\ event.idx # mineIdx
  /\ revealed[event.idx]
  /\ gameState = "playing"
  /\ safeRevealed = 1

\* C7: a press of Claim at time `clock` changes neither balance nor lastClaim
\* when clock - lastClaim < CLAIM_INTERVAL, and otherwise adds CLAIM_AMOUNT to
\* the balance and sets lastClaim to clock.
C7_ClaimByCurrentTime ==
  [][event'.op = "claim" =>
       IF clock - lastClaim < CLAIM_INTERVAL
       THEN UNCHANGED << balance, lastClaim >>
       ELSE balance' = balance + CLAIM_AMOUNT /\ lastClaim' = clock]_vars

\* C8: a press of Start during a round takes no second wager and leaves the
\* mine position, the revealed tiles and safeRevealed of the round alone.
C8_StartWhilePlayingIgnored ==
  [][(event'.op = "start" /\ gameState = "playing") =>
       UNCHANGED << balance, wager, staked, mineIdx, revealed, safeRevealed, gameState >>]_vars

\* Start was pressed in a round that already has an open tile
C8_Witness ==
  /\ event.op = "start" /\ ~event.ran
  /\ gameState = "playing"
  /\ RevealedSet # {}
  /\ balance > 0

\* C9: revealTile and cashOut outside playing change nothing: state, balance,
\* revealed, safeRevealed, mine position and lastClaim stay as they are.
C9_OutOfStateNoOp ==
  [][(event'.op \in {"reveal", "cashOut"} /\ gameState # "playing") =>
       UNCHANGED << gameState, balance, revealed, safeRevealed, mineIdx, lastClaim >>]_vars

\* cashOut was called after the round had been cashed out
C9_Witness ==
  /\ event.op = "cashOut" /\ ~event.ran
  /\ gameState = "cashout"

\* C10: revealTile on a tile that is already open changes nothing:
\* safeRevealed, the multiplier, revealed, the state and the balance are the
\* same before and after.
C10_RevealOpenTileNoOp ==
  [][(event'.op = "reveal" /\ revealed[event'.idx]) =>
       /\ UNCHANGED << safeRevealed, revealed, gameState, balance >>
       /\ currentMultiplier' = currentMultiplier]_vars

\* an open safe tile was clicked again during the round
C10_Witness ==
  /\ event.op = "reveal" /\ ~event.ran
  /\ gameState = "playing"
  /\ revealed[event.idx]
  /\ event.idx # mineIdx

\* C11 as stated, in the case it singles out: resetRound can be performed
\* in the middle of a round.
C11_ResetAlwaysAllowed == gameState = "playing" => ENABLED ClickReset

\* C11: resetRound runs only from cashout or busted (the Reset button is
\* rendered only there); when it runs it clears revealed, sets safeRevealed
\* to 0, draws a mine position, moves the state to idle and leaves balance
\* and lastClaim as they are (the wager taken at the start is not returned).
C11_ResetEffects ==
  [][event'.op = "reset" =>
       /\ gameState \in {"cashout", "busted"}
       /\ revealed' = [i \in Tiles |-> FALSE]
       /\ safeRevealed' = 0
       /\ mineIdx' \in Tiles
       /\ gameState' = "idle"
       /\ UNCHANGED << balance, lastClaim, wager >>]_vars

\* the board was reset after a round in which a safe tile paid out
C11_Witness ==
  /\ event.op = "reset" /\ event.ran
  /\ gameState = "idle"
  /\ RevealedSet = {}
  /\ safeRevealed = 0
  /\ staked > 0
  /\ balance > DEFAULT_BALANCE

\* C12: from cashout or busted the round state changes only by startGame (to
\* playing) or resetRound (to idle); revealTile, cashOut and claimPoints never
\* change it there; out of playing, revealTile leads only to busted and
\* cashOut only to cashout.
C12_TerminalStates ==
  [][/\ (gameState \in {"cashout", "busted"} /\ gameState' # gameState) =>
          \/ event'.op = "start" /\ gameState' = "playing"
          \/ event'.op = "reset" /\ gameState' = "idle"
     /\ (gameState = "playing" /\ gameState' # gameState /\ event'.op = "reveal") =>
          gameState' = "busted"
     /\ (gameState = "playing" /\ gameState' # gameState /\ event'.op = "cashOut") =>
          gameState' = "cashout"]_vars

\* a claim was credited after the bust and the state is still busted
C12_Witness ==
  /\ event.op = "claim" /\ event.ran
  /\ gameState = "busted"

\* C13 as stated: the time until the next claim is
\* max(0, CLAIM_INTERVAL - (now - lastClaim)), so it is never negative.
C13_TimeLeftClamped == timeLeft = Max(0, CLAIM_INTERVAL - (now - lastClaim))

\* C13: timeLeft is not clamped; it is at most CLAIM_INTERVAL, it is <= 0
\* exactly when canClaim holds, and formatTime shows "Ready!" exactly then.
C13_TimeLeft ==
  /\ timeLeft <= CLAIM_INTERVAL
  /\ (timeLeft <= 0) <=> canClaim
  /\ formatTime(timeLeft).ready <=> canClaim
  /\ ~canClaim => formatTime(timeLeft).h * 60 + formatTime(timeLeft).m <= 6 * 60

\* the claim panel is shown while more than CLAIM_INTERVAL has passed
C13_Witness ==
  /\ ClaimShown
  /\ canClaim
  /\ timeLeft < 0

\* C14: curvedMultiplier is non-decreasing over 0..SAFE_TILES, is 1.00 at 0
\* and 20.00 at SAFE_TILES; no reveal during a round lowers the multiplier.
C14_CurveMonotone ==
  /\ [](/\ curvedMultiplier(0) = 100
        /\ curvedMultiplier(SAFE_TILES) = MAX_MULT
        /\ \A n \in 0 .. (SAFE_TILES - 1) :
              curvedMultiplier(n) <= curvedMultiplier(n + 1))
  /\ [][(event'.op = "reveal" /\ gameState = "playing") =>
          currentMultiplier' >= currentMultiplier]_vars

\* the last safe tile has just been opened
C14_Witness ==
  /\ event.op = "reveal" /\ event.ran
  /\ gameState = "playing"
  /\ safeRevealed = SAFE_TILES

\* C15: in every reachable state MIN_MULT <= multiplier <= MAX_MULT and
\* safeRevealed is within 0..SAFE_TILES.
C15_MultiplierRange ==
  /\ MIN_MULT <= currentMultiplier
  /\ currentMultiplier <= MAX_MULT
  /\ safeRevealed \in 0 .. SAFE_TILES

\* a round cashed out at the top of the curve
C15_Witness ==
  /\ gameState = "cashout"
  /\ safeRevealed = SAFE_TILES
  /\ currentMultiplier = MAX_MULT

\* C16: after every operation the stored balance and the stored lastClaim,
\* read back, are the values held in memory.
C16_StoreFollowsState ==
  /\ StringToNumber(store.moo_balance) = balance
  /\ StringToMillis(store.moo_lastClaim) = lastClaim

\* a claim has been credited and both keys have been rewritten
C16_Witness ==
  /\ event.op = "claim" /\ event.ran
  /\ store.moo_balance # NumberToString(DEFAULT_BALANCE)
  /\ store.moo_lastClaim # MillisToString(DEFAULT_LAST_CLAIM)
  /\ store.moo_balance.frac # << >>

\* C17: at most TOTAL_TILES tiles are revealed; apart from startGame and
\* resetRound no step closes a tile; once the mine is revealed the revealed
\* tiles change only by startGame or resetRound, which clear them.
C17_RevealedGrows ==
  /\ [](Cardinality(RevealedSet) <= TOTAL_TILES)
  /\ [][event'.op \notin {"start", "reset"} =>
          \A i \in Tiles : revealed[i] => revealed'[i]]_vars
  /\ [][(revealed[mineIdx] /\ revealed' # revealed) =>
          (event'.op \in {"start", "reset"} /\ RevealedSet' = {})]_vars

\* a closed tile was clicked after the mine had been revealed
C17_Witness ==
  /\ event.op = "reveal" /\ ~event.ran
  /\ revealed[mineIdx]
  /\ event.idx \in ClosedTiles

\* C18: safeRevealed is the number of revealed tiles other than the mine,
\* and the mine is revealed exactly when the state is busted.
C18_SafeCount ==
  /\ safeRevealed = Cardinality(RevealedSet \ {mineIdx})
  /\ revealed[mineIdx] <=> gameState = "busted"

\* busted after one safe tile
C18_Witness ==
  /\ gameState = "busted"
  /\ mineIdx \in RevealedSet
  /\ safeRevealed = 1
  /\ Cardinality(RevealedSet) = 2

\* C19: while playing the mine is closed and every revealed tile is a safe
\* one, so fewer than TOTAL_TILES tiles are open; each reveal of a closed
\* tile opens exactly one more tile and busts exactly when that tile is the
\* mine.  Hence a player who keeps opening closed tiles is busted within
\* TOTAL_TILES reveals.
C19_RoundEnds ==
  /\ [](gameState = "playing" =>
          /\ mineIdx \in ClosedTiles
          /\ Cardinality(RevealedSet) = safeRevealed
          /\ Cardinality(RevealedSet) < TOTAL_TILES)
  /\ [][(event'.op = "reveal" /\ gameState = "playing" /\ event'.idx \in ClosedTiles) =>
          /\ Cardinality(RevealedSet') = Cardinality(RevealedSet) + 1
          /\ gameState' = "busted" <=> event'.idx = mineIdx
          /\ gameState' \in {"busted", "playing"}]_vars

\* the mine was the last of the TOTAL_TILES tiles to be opened
C19_Witness ==
  /\ event.op = "reveal" /\ event.ran
  /\ gameState = "busted"
  /\ Cardinality(RevealedSet) = TOTAL_TILES

\* C20: a claim is credited only when at least CLAIM_INTERVAL has passed
\* since lastClaim, it sets lastClaim to the time of the claim, and
\* lastClaim never decreases; so two credited claims are at least
\* CLAIM_INTERVAL apart.
C20_ClaimRateLimit ==
  /\ [][(event'.op = "claim" /\ balance' # balance) =>
          /\ clock - lastClaim >= CLAIM_INTERVAL
          /\ lastClaim' = clock
          /\ balance' = balance + CLAIM_AMOUNT]_vars
  /\ [][lastClaim' >= lastClaim]_vars
  /\ [][balance' > balance => event'.op \in {"claim", "cashOut"}]_vars

\* a second claim was credited, one tick after the first
C20_Witness ==
  /\ event.op = "claim" /\ event.ran
  /\ lastClaim = MountTime + TickStep
  /\ rounds = 2
  /\ staked = CLAIM_AMOUNT

====
